---------------------------- MODULE Spec2Model ----------------------------
(***************************************************************************)
(* A model of movie_fixer.py: class MovieFixer (constructor, ledger load   *)
(* and save, patch tool detection, patch generation, per-file processing   *)
(* with its two exception handlers, attribute copying and the directory    *)
(* loop of run()).  The file system, the ffmpeg child and the three patch  *)
(* tools are the environment; their outcomes are drawn from small sets.    *)
(***************************************************************************)
EXTENDS Integers, Sequences, FiniteSets, TLC

VARIABLES
    pc,               \* position of the (single) Python thread
    runs,             \* number of program invocations started so far
    clock,            \* int(time.time()), abstracted to a small counter
    which,            \* tools shutil.which resolves on this host
    dir_exists,       \* self.directory.exists()
    recursive,        \* self.recursive
    target_gid,       \* self.target_gid: <<>> is None, <<g>> is the gid g
    data_file,        \* the ledger file on disk: [kind, map]
    processed_files,  \* self.processed_files (the in-memory ledger)
    patch_tool,       \* self.patch_tool
    files,            \* regular files of the tree: path -> [content, uid, gid, mode]
    temp,             \* the '.patched' siblings: path -> file
    patches,          \* patch artifacts: <<path, timestamp>> -> [data, uid, gid, mode]
    queue,            \* what the glob iterator of run() still has to yield
    file_path,        \* process_file: its argument
    original_stat,    \* process_file: os.stat(file_path) of line 170
    patch_file,       \* process_file: the local patch_file (unbound, None or a name)
    child,            \* the ffmpeg child: [state, rc]
    overdue,          \* the child was still running 300 s after its launch
    pre,              \* history: the file at file_path when process_file was entered
    attempted,        \* history: the paths that reached the ffmpeg launch in this run
    startup,          \* history: how the constructor ended
    outcome,          \* history: the last process_file call that ended, [path, how]
    before,           \* history: path -> content it had before it was recorded
    left,             \* history: files, patches and ledger file when this run began
    faults            \* number of environment failures so far

vars == <<pc, runs, clock, which, dir_exists, recursive, target_gid,
          data_file, processed_files, patch_tool, files, temp, patches, queue,
          file_path, original_stat, patch_file, child, overdue, pre,
          attempted, startup, outcome, before, left, faults>>

----------------------------------------------------------------------------
(* Bounds of the model. *)

\* Number of program invocations (the first run and the reruns after it).
MaxRuns == 2

\* Largest value of the seconds counter behind int(time.time()): the number
\* of distinct timestamps patch file names can carry.
MaxTime == 1

\* Number of environment failures in one behaviour: a child that cannot be
\* started or exits nonzero, a failing patch tool, a failing system call.
MaxFaults == 1

----------------------------------------------------------------------------
(* The directory tree the program is pointed at. *)

TopLevel == <<"a.mp4", "c.txt", "sub">>

Nested == <<"sub/b.MKV">>

Paths == {"a.mp4", "c.txt", "sub/b.MKV"}

Entries == Paths \cup {"sub"}

\* Path.suffix of each entry of the tree.
Suffix(p) ==
    CASE p = "a.mp4" -> ".mp4"
      [] p = "c.txt" -> ".txt"
      [] p = "sub/b.MKV" -> ".MKV"
      [] OTHER -> ""

\* str.lower() on the suffixes that occur.
Lower(s) ==
    CASE s = ".MKV" -> ".mkv"
      [] OTHER -> s

\* An extension set that also takes text files.
movie_extensions_WithTxt == {".mp4", ".mkv", ".avi", ".mov", ".txt"}

movie_extensions == {".mp4", ".mkv", ".avi", ".mov"}

Tools == {"bsdiff", "xdelta3", "diff"}

RW_BITS == {"S_IRUSR", "S_IWUSR", "S_IRGRP", "S_IWGRP", "S_IROTH", "S_IWOTH"}

\* Files as they are before the first run.
InitialFiles ==
    [p \in Paths |->
        CASE p = "a.mp4" ->
               [content |-> <<1, 3, 2>>, uid |-> 1000, gid |-> 20,
                mode |-> {"S_IRUSR", "S_IWUSR", "S_IXUSR", "S_IRGRP"}]
          [] p = "sub/b.MKV" ->
               [content |-> <<2, 1>>, uid |-> 1001, gid |-> 10,
                mode |-> {"S_IRUSR", "S_IWUSR", "S_IRGRP", "S_IWGRP", "S_ISGID"}]
          [] OTHER ->
               [content |-> <<7>>, uid |-> 1000, gid |-> 20,
                mode |-> {"S_IRUSR", "S_IWUSR"}]]

\* Owner, group and mode of a file the process (or its child) creates.
ProcessAttrs == [uid |-> 0, gid |-> 0, mode |-> {"S_IRUSR", "S_IWUSR", "S_IRGRP", "S_IROTH"}]

EmptyMap == [k \in {} |-> k]

Put(m, k, v) == [x \in DOMAIN m \cup {k} |-> IF x = k THEN v ELSE m[x]]

Remove(m, k) == [x \in DOMAIN m \ {k} |-> m[x]]

Min(a, b) == IF a < b THEN a ELSE b

Reverse(s) == [i \in 1..Len(s) |-> s[Len(s) + 1 - i]]

Range(s) == {s[i] : i \in 1..Len(s)}

----------------------------------------------------------------------------
(* Local variables of process_file. *)

Unbound == [bound |-> FALSE]

None == [bound |-> TRUE, none |-> TRUE]

Name(p, ts) == [bound |-> TRUE, none |-> FALSE, key |-> <<p, ts>>]

NoChild == [state |-> "none", rc |-> 0]

NoStat == [uid |-> -1, gid |-> -1, mode |-> {}]

StatOf(f) == [uid |-> f.uid, gid |-> f.gid, mode |-> f.mode]

----------------------------------------------------------------------------
(* The external tools.  A file's content is a sequence of bytes.           *)

\* ffmpeg -c copy -movflags +faststart: the index atom (2) moves to the front.
Faststart(c) == SelectSeq(c, LAMBDA b : b = 2) \o SelectSeq(c, LAMBDA b : b # 2)

\* What a successful ffmpeg run may write: the remuxed stream, with or
\* without the padding atoms (3) of the input.
FfmpegOutputs(c) == {Faststart(c), SelectSeq(Faststart(c), LAMBDA b : b # 3)}

\* Length of the longest common prefix of two byte sequences.
CommonPrefix(a, b) ==
    CHOOSE k \in 0..Min(Len(a), Len(b)) :
        /\ \A i \in 1..k : a[i] = b[i]
        /\ k = Min(Len(a), Len(b)) \/ a[k + 1] # b[k + 1]

\* bsdiff <old> <new> <patch>: bytewise differences against old over the
\* overlap, then the extra bytes of new.  Nothing of old is stored.
Bsdiff(old, new) ==
    LET m == Min(Len(old), Len(new))
    IN  [fmt |-> "bsdiff",
         diff |-> [i \in 1..m |-> (new[i] - old[i]) % 256],
         extra |-> SubSeq(new, m + 1, Len(new))]

\* xdelta3 -e -s <old> <new> <patch>: copy a prefix of the source, add the rest.
Xdelta3Encode(old, new) ==
    LET n == CommonPrefix(old, new)
    IN  [fmt |-> "vcdiff", copy |-> n, add |-> SubSeq(new, n + 1, Len(new))]

\* diff <old> <new> (normal format): one change hunk with the removed lines
\* of old and the added lines of new; no hunk (empty output) when equal.
DiffOutput(old, new) ==
    LET n == CommonPrefix(old, new)
    IN  IF old = new
        THEN [fmt |-> "empty"]
        ELSE [fmt |-> "diff", at |-> n,
              del |-> SubSeq(old, n + 1, Len(old)),
              add |-> SubSeq(new, n + 1, Len(new))]

Empty == [fmt |-> "empty"]

\* What an interrupted tool leaves behind.
Partial == [fmt |-> "partial"]

Failed == [ok |-> FALSE, out |-> <<>>]

Ok(c) == [ok |-> TRUE, out |-> c]

\* bspatch <base> <out> <patch>: the only way a bsdiff patch is applied.
Bspatch(base, p) ==
    IF p.fmt # "bsdiff" \/ Len(base) < Len(p.diff)
    THEN Failed
    ELSE Ok([i \in 1..Len(p.diff) |-> (base[i] + p.diff[i]) % 256] \o p.extra)

\* xdelta3 -d -s <base> <patch> <out>.
Xdelta3Decode(base, p) ==
    IF p.fmt # "vcdiff" \/ Len(base) < p.copy
    THEN Failed
    ELSE Ok(SubSeq(base, 1, p.copy) \o p.add)

\* patch -R <base> <patch>: undo the hunk, which must match base.
PatchReverse(base, p) ==
    IF p.fmt # "diff" \/ SubSeq(base, p.at + 1, Len(base)) # p.add \/ Len(base) < p.at
    THEN Failed
    ELSE Ok(SubSeq(base, 1, p.at) \o p.del)

\* Recovering the previous content from `base` with the recorded tool.
ReverseApply(tool, p, base) ==
    CASE tool = "bsdiff" -> Bspatch(base, p)
      [] tool = "xdelta3" -> Xdelta3Decode(base, p)
      [] OTHER -> PatchReverse(base, p)

NoWrite == [fmt |-> "nowrite"]

Message == [fmt |-> "message"]

\* One run of the selected patch tool on (old, new): its exit code, what it
\* wrote to the patch path itself and what it printed on standard output.
\* A binary tool may exit 0 over a zero-size patch file (a full disk); diff
\* may be ended by a signal (a negative returncode) with part of its output.
ToolRuns(tool, old, new) ==
    CASE tool = "bsdiff" ->
           {[rc |-> 0, file |-> Bsdiff(old, new), stdout |-> Empty],
            [rc |-> 0, file |-> Empty, stdout |-> Empty],
            [rc |-> 1, file |-> NoWrite, stdout |-> Empty],
            [rc |-> 1, file |-> Partial, stdout |-> Empty]}
      [] tool = "xdelta3" ->
           {[rc |-> 0, file |-> Xdelta3Encode(old, new), stdout |-> Empty],
            [rc |-> 0, file |-> Empty, stdout |-> Empty],
            [rc |-> 1, file |-> NoWrite, stdout |-> Empty],
            [rc |-> 1, file |-> Partial, stdout |-> Empty]}
      [] OTHER ->
           {[rc |-> IF old = new THEN 0 ELSE 1, file |-> NoWrite,
             stdout |-> DiffOutput(old, new)],
            [rc |-> 2, file |-> NoWrite, stdout |-> Message],
            [rc |-> -9, file |-> NoWrite, stdout |-> Empty],
            [rc |-> -9, file |-> NoWrite, stdout |-> Partial]}

----------------------------------------------------------------------------
(* The methods of MovieFixer that are functions of their arguments.        *)

DetectOrder == <<"bsdiff", "xdelta3", "diff">>

\* A detection that takes the last tool found instead of the first.
detect_patch_tool_Last(avail) ==
    LET hits == {i \in 1..Len(DetectOrder) : DetectOrder[i] \in avail}
    IN  IF hits = {}
        THEN "raise"
        ELSE DetectOrder[CHOOSE i \in hits : \A j \in hits : i >= j]

\* detect_patch_tool: the first tool of the list that shutil.which finds,
\* "raise" when there is none.
detect_patch_tool(avail) ==
    LET hits == {i \in 1..Len(DetectOrder) : DetectOrder[i] \in avail}
    IN  IF hits = {}
        THEN "raise"
        ELSE DetectOrder[CHOOSE i \in hits : \A j \in hits : i <= j]

\* load_processed_files: the mapping, or the exception that leaves the method.
load_processed_files(df) ==
    CASE df.kind = "missing" -> [exc |-> "none", map |-> EmptyMap]
      [] df.kind = "valid" -> [exc |-> "none", map |-> df.map]
      [] df.kind = "badjson" -> [exc |-> "none", map |-> EmptyMap]
      [] df.kind = "undecodable" -> [exc |-> "UnicodeDecodeError", map |-> EmptyMap]
      [] OTHER -> [exc |-> "PermissionError", map |-> EmptyMap]

SaveOutcomes == {"ok", "open_fails", "write_fails"}

\* save_processed_files: open(..., 'w') truncates, json.dump writes the
\* whole mapping.
save_processed_files(df, m, how) ==
    CASE how = "ok" -> [kind |-> "valid", map |-> m]
      [] how = "open_fails" -> df
      [] OTHER -> [kind |-> "badjson", map |-> EmptyMap]

AttrOutcomes == {"ok", "chown_fails"}

\* An attribute copy that keeps every bit of the snapshot's mode.
copy_file_attributes_AllBits(f, st, how) ==
    CASE how = "ok" -> [f EXCEPT !.uid = st.uid, !.gid = st.gid, !.mode = st.mode]
      [] how = "chmod_fails" -> [f EXCEPT !.uid = st.uid, !.gid = st.gid]
      [] OTHER -> f

\* copy_file_attributes: chown to the snapshot's owner and group, then chmod
\* to its read/write bits; either call may raise.
copy_file_attributes(f, st, how) ==
    CASE how = "ok" ->
           [f EXCEPT !.uid = st.uid, !.gid = st.gid, !.mode = st.mode \cap RW_BITS]
      [] how = "chmod_fails" -> [f EXCEPT !.uid = st.uid, !.gid = st.gid]
      [] OTHER -> f

NewFile(data) ==
    [data |-> data, uid |-> ProcessAttrs.uid, gid |-> ProcessAttrs.gid,
     mode |-> ProcessAttrs.mode]

\* A stamping step that does not verify the patch file first.
VerifyAndStamp_NoVerify(ps, key, st, how) ==
    IF key \notin DOMAIN ps
    THEN [patches |-> ps, ret |-> Name(key[1], key[2])]
    ELSE [patches |-> Put(ps, key, copy_file_attributes(ps[key], st, how)),
          ret |-> IF how = "ok" THEN Name(key[1], key[2]) ELSE None]

\* Lines 118-126 of generate_patch: verify the patch file, stamp it with the
\* original's attributes, return its name.
VerifyAndStamp(ps, key, st, how) ==
    IF key \notin DOMAIN ps \/ ps[key].data = Empty
    THEN [patches |-> ps, ret |-> None]
    ELSE [patches |-> Put(ps, key, copy_file_attributes(ps[key], st, how)),
          ret |-> IF how = "ok" THEN Name(key[1], key[2]) ELSE None]

\* generate_patch: the patch files afterwards and the value returned.
generate_patch(tool, ps, key, st, run, how) ==
    IF tool \in {"bsdiff", "xdelta3"}
    THEN LET p1 == IF run.file = NoWrite THEN ps ELSE Put(ps, key, NewFile(run.file))
         IN  IF run.rc # 0
             THEN [patches |-> p1, ret |-> None]
             ELSE VerifyAndStamp(p1, key, st, how)
    ELSE IF run.rc > 1
         THEN [patches |-> ps, ret |-> None]
         ELSE IF run.stdout = Empty
              THEN [patches |-> ps, ret |-> None]
              ELSE VerifyAndStamp(Put(ps, key, NewFile(run.stdout)), key, st, how)

----------------------------------------------------------------------------
(* Initial state: the program has been started, nothing has run yet.       *)

NoFile == [content |-> <<>>, uid |-> -1, gid |-> -1, mode |-> {}]

NoOutcome == [path |-> "none", how |-> "none"]

LedgerKinds == {"missing", "valid", "badjson", "undecodable", "unreadable"}

Init ==
    /\ pc = "init"
    /\ runs = 1
    /\ clock = 1
    /\ which \in SUBSET Tools
    /\ dir_exists \in BOOLEAN
    /\ recursive \in BOOLEAN
    /\ target_gid \in {<<>>, <<20>>}
    /\ data_file \in {[kind |-> k, map |-> EmptyMap] : k \in LedgerKinds}
    /\ processed_files = EmptyMap
    /\ patch_tool = "unset"
    /\ files = InitialFiles
    /\ temp = EmptyMap
    /\ patches = EmptyMap
    /\ queue = <<>>
    /\ file_path = "none"
    /\ original_stat = NoStat
    /\ patch_file = Unbound
    /\ child = NoChild
    /\ overdue = FALSE
    /\ pre = NoFile
    /\ attempted = {}
    /\ startup = "none"
    /\ outcome = NoOutcome
    /\ before = EmptyMap
    /\ left = [files |-> files, patches |-> patches, data_file |-> data_file]
    /\ faults = 0

env == <<which, dir_exists, recursive, target_gid>>

fsys == <<files, temp, patches>>

locals == <<file_path, original_stat, patch_file, child, overdue, pre>>

hist == <<outcome, before, left>>

----------------------------------------------------------------------------
(* __init__ (lines 20-39): load the ledger, then detect the patch tool.    *)

MovieFixerInit ==
    /\ pc = "init"
    /\ LET ld == load_processed_files(data_file)
           tool == detect_patch_tool(which)
       IN  IF ld.exc # "none"
           THEN /\ pc' = "fatal"
                /\ startup' = ld.exc
                /\ UNCHANGED <<processed_files, patch_tool>>
           ELSE /\ processed_files' = ld.map
                /\ IF tool = "raise"
                   THEN /\ pc' = "fatal"
                        /\ startup' = "NoPatchTool"
                        /\ UNCHANGED patch_tool
                   ELSE /\ pc' = "constructed"
                        /\ startup' = "ok"
                        /\ patch_tool' = tool
    /\ UNCHANGED <<runs, clock, env, data_file, fsys, queue, locals, attempted,
                   hist, faults>>

(* run (lines 277-290): the directory check and the glob.  The entries are  *)
(* read when the iteration starts, in one of the two orders of the listing. *)

Listing == IF recursive THEN TopLevel \o Nested ELSE TopLevel

Present(p) == p = "sub" \/ p \in DOMAIN files

\* A run() that lists the directory without checking that it exists.
Run_NoDirCheck ==
    /\ pc = "constructed"
    /\ pc' = "loop"
    /\ \E order \in {Listing, Reverse(Listing)} :
           queue' = SelectSeq(order, Present)
    /\ UNCHANGED <<runs, clock, env, data_file, processed_files, patch_tool, fsys,
                   locals, attempted, startup, hist, faults>>

Run ==
    /\ pc = "constructed"
    /\ IF ~dir_exists
       THEN /\ pc' = "done"
            /\ UNCHANGED queue
       ELSE /\ pc' = "loop"
            /\ \E order \in {Listing, Reverse(Listing)} :
                   queue' = SelectSeq(order, Present)
    /\ UNCHANGED <<runs, clock, env, data_file, processed_files, patch_tool, fsys,
                   locals, attempted, startup, hist, faults>>

\* The for loop of run() is exhausted.
RunReturn ==
    /\ pc = "loop"
    /\ queue = <<>>
    /\ pc' = "done"
    /\ UNCHANGED <<runs, clock, env, data_file, processed_files, patch_tool, fsys,
                   queue, locals, attempted, startup, hist, faults>>

----------------------------------------------------------------------------
(* process_file's locals end with the call. *)

ClearLocals ==
    /\ file_path' = "none"
    /\ original_stat' = NoStat
    /\ patch_file' = Unbound
    /\ child' = NoChild
    /\ overdue' = FALSE
    /\ pre' = NoFile

\* An eligibility check without the group-id filter.
ProcessFile_NoGidFilter ==
    /\ pc = "loop"
    /\ queue # <<>>
    /\ LET p == Head(queue)
       IN  /\ queue' = Tail(queue)
           /\ IF \/ p \in DOMAIN processed_files
                 \/ Lower(Suffix(p)) \notin movie_extensions
              THEN /\ pc' = "loop"
                   /\ outcome' =
                          [path |-> p,
                           how |-> IF p \in DOMAIN processed_files
                                   THEN "already_processed"
                                   ELSE "ignored"]
                   /\ UNCHANGED locals
              ELSE /\ pc' = "popen"
                   /\ file_path' = p
                   /\ original_stat' = StatOf(files[p])
                   /\ pre' = files[p]
                   /\ UNCHANGED <<patch_file, child, overdue, outcome>>
    /\ UNCHANGED <<runs, clock, env, data_file, processed_files, patch_tool, fsys,
                   attempted, startup, before, left, faults>>

\* An eligibility check that does not consult the ledger.
ProcessFile_IgnoresLedger ==
    /\ pc = "loop"
    /\ queue # <<>>
    /\ LET p == Head(queue)
       IN  /\ queue' = Tail(queue)
           /\ IF \/ Lower(Suffix(p)) \notin movie_extensions
                 \/ target_gid # <<>> /\ files[p].gid # target_gid[1]
              THEN /\ pc' = "loop"
                   /\ outcome' =
                          [path |-> p,
                           how |-> IF Lower(Suffix(p)) \notin movie_extensions
                                   THEN "ignored"
                                   ELSE "gid_mismatch"]
                   /\ UNCHANGED locals
              ELSE /\ pc' = "popen"
                   /\ file_path' = p
                   /\ original_stat' = StatOf(files[p])
                   /\ pre' = files[p]
                   /\ UNCHANGED <<patch_file, child, overdue, outcome>>
    /\ UNCHANGED <<runs, clock, env, data_file, processed_files, patch_tool, fsys,
                   attempted, startup, before, left, faults>>

(* process_file, lines 137-170: the eligibility checks and the snapshot.   *)

ProcessFile ==
    /\ pc = "loop"
    /\ queue # <<>>
    /\ LET p == Head(queue)
       IN  /\ queue' = Tail(queue)
           /\ IF \/ p \in DOMAIN processed_files
                 \/ Lower(Suffix(p)) \notin movie_extensions
                 \/ target_gid # <<>> /\ files[p].gid # target_gid[1]
              THEN /\ pc' = "loop"
                   /\ outcome' =
                          [path |-> p,
                           how |-> IF p \in DOMAIN processed_files
                                   THEN "already_processed"
                                   ELSE IF Lower(Suffix(p)) \notin movie_extensions
                                        THEN "ignored"
                                        ELSE "gid_mismatch"]
                   /\ UNCHANGED locals
              ELSE /\ pc' = "popen"
                   /\ file_path' = p
                   /\ original_stat' = StatOf(files[p])
                   /\ pre' = files[p]
                   /\ UNCHANGED <<patch_file, child, overdue, outcome>>
    /\ UNCHANGED <<runs, clock, env, data_file, processed_files, patch_tool, fsys,
                   attempted, startup, before, left, faults>>

(* Lines 184-194: subprocess.Popen starts ffmpeg, or raises OSError.        *)

Popen ==
    /\ pc = "popen"
    /\ attempted' = attempted \cup {file_path}
    /\ \E started \in BOOLEAN :
           IF started
           THEN /\ child' = [state |-> "running", rc |-> 0]
                /\ pc' = "stream"
                /\ UNCHANGED faults
           ELSE /\ faults < MaxFaults
                /\ faults' = faults + 1
                /\ pc' = "except"
                /\ UNCHANGED child
    /\ UNCHANGED <<runs, clock, env, data_file, processed_files, patch_tool, fsys,
                   queue, file_path, original_stat, patch_file, overdue, pre,
                   startup, hist>>

(* The ffmpeg child ends: exit code 0 with the output file written, or a    *)
(* nonzero code with or without a partial output file.                      *)

FfmpegExit ==
    /\ pc = "stream"
    /\ child.state = "running"
    /\ \E rc \in {0, 1}, leaves \in BOOLEAN :
           /\ child' = [state |-> "exited", rc |-> rc]
           /\ IF rc = 0
              THEN /\ \E out \in FfmpegOutputs(files[file_path].content) :
                          temp' = Put(temp, file_path,
                                      [content |-> out, uid |-> ProcessAttrs.uid,
                                       gid |-> ProcessAttrs.gid,
                                       mode |-> ProcessAttrs.mode])
                   /\ UNCHANGED faults
              ELSE /\ faults < MaxFaults
                   /\ faults' = faults + 1
                   /\ IF leaves
                      THEN temp' = Put(temp, file_path,
                                       [content |-> <<>>, uid |-> ProcessAttrs.uid,
                                        gid |-> ProcessAttrs.gid,
                                        mode |-> ProcessAttrs.mode])
                      ELSE UNCHANGED temp
    /\ UNCHANGED <<pc, runs, clock, env, data_file, processed_files, patch_tool,
                   files, patches, queue, file_path, original_stat, patch_file,
                   overdue, pre, attempted, startup, hist>>

(* 300 seconds have passed since the launch and the child is still running. *)

DeadlinePasses ==
    /\ pc = "stream"
    /\ child.state = "running"
    /\ ~overdue
    /\ overdue' = TRUE
    /\ UNCHANGED <<pc, runs, clock, env, data_file, processed_files, patch_tool,
                   fsys, queue, file_path, original_stat, patch_file, child, pre,
                   attempted, startup, hist, faults>>

(* Lines 196-202: the read loop.  readline() blocks for a line; the loop    *)
(* is left only once the stream is at its end and poll() reports an exit.   *)

StreamOutput ==
    /\ pc = "stream"
    /\ child.state = "exited"
    /\ pc' = "wait"
    /\ UNCHANGED <<runs, clock, env, data_file, processed_files, patch_tool, fsys,
                   queue, locals, attempted, startup, hist, faults>>

(* Lines 204-211: process.wait(timeout=300) and the exit code.              *)

WaitChild ==
    /\ pc = "wait"
    /\ IF child.state = "exited"
       THEN /\ pc' = IF child.rc # 0 THEN "except_cpe" ELSE "patch"
            /\ UNCHANGED child
       ELSE /\ child' = [state |-> "killed", rc |-> -9]
            /\ pc' = "except"
    /\ UNCHANGED <<runs, clock, env, data_file, processed_files, patch_tool, fsys,
                   queue, file_path, original_stat, patch_file, overdue, pre,
                   attempted, startup, hist, faults>>

(* Lines 213-216: generate_patch (lines 80-135) and the check of its result. *)

\* The tool run is one of the counted failures.
ToolFailed(tool, run) ==
    IF tool = "diff" THEN run.rc \notin {0, 1} ELSE run.rc # 0 \/ run.file = Empty

GeneratePatch ==
    /\ pc = "patch"
    /\ \E ts \in clock..MaxTime :
       \E run \in ToolRuns(patch_tool, files[file_path].content,
                           temp[file_path].content) :
       \E how \in AttrOutcomes :
           LET r == generate_patch(patch_tool, patches, <<file_path, ts>>,
                                   StatOf(files[file_path]), run, how)
               stamps == generate_patch(patch_tool, patches, <<file_path, ts>>,
                                        StatOf(files[file_path]), run, "ok").ret # None
               bad == ToolFailed(patch_tool, run) \/ how # "ok"
           IN  /\ how # "ok" => stamps
               /\ bad => faults < MaxFaults
               /\ faults' = IF bad THEN faults + 1 ELSE faults
               /\ clock' = ts
               /\ patches' = r.patches
               /\ patch_file' = r.ret
               /\ pc' = IF r.ret = None THEN "except" ELSE "unlink"
    /\ UNCHANGED <<runs, env, data_file, processed_files, patch_tool, files, temp,
                   queue, file_path, original_stat, child, overdue, pre,
                   attempted, startup, hist>>

(* Line 219: os.unlink(file_path). *)

UnlinkOriginal ==
    /\ pc = "unlink"
    /\ \E done \in BOOLEAN :
           IF done
           THEN /\ files' = Remove(files, file_path)
                /\ pc' = "rename"
                /\ UNCHANGED faults
           ELSE /\ faults < MaxFaults
                /\ faults' = faults + 1
                /\ pc' = "except"
                /\ UNCHANGED files
    /\ UNCHANGED <<runs, clock, env, data_file, processed_files, patch_tool, temp,
                   patches, queue, locals, attempted, startup, hist>>

(* Line 220: os.rename(patched_file, file_path). *)

RenameTemp ==
    /\ pc = "rename"
    /\ \E done \in BOOLEAN :
           IF done
           THEN /\ files' = Put(files, file_path, temp[file_path])
                /\ temp' = Remove(temp, file_path)
                /\ pc' = "attrs"
                /\ UNCHANGED faults
           ELSE /\ faults < MaxFaults
                /\ faults' = faults + 1
                /\ pc' = "except"
                /\ UNCHANGED <<files, temp>>
    /\ UNCHANGED <<runs, clock, env, data_file, processed_files, patch_tool,
                   patches, queue, locals, attempted, startup, hist>>

(* Line 222: copy_file_attributes(file_path, original_stat). *)

RestoreAttributes ==
    /\ pc = "attrs"
    /\ \E how \in AttrOutcomes :
           /\ how # "ok" => faults < MaxFaults
           /\ faults' = IF how # "ok" THEN faults + 1 ELSE faults
           /\ files' = Put(files, file_path,
                           copy_file_attributes(files[file_path], original_stat, how))
           /\ pc' = IF how = "ok" THEN "record" ELSE "except"
    /\ UNCHANGED <<runs, clock, env, data_file, processed_files, patch_tool, temp,
                   patches, queue, locals, attempted, startup, hist>>

(* Lines 224-235: the ledger entry, inserted in memory and saved. *)

FileInfo(p, pf, tool, now) ==
    [original_file |-> p, patch_file |-> pf.key, patch_tool |-> tool,
     timestamp |-> now]

RecordAndSave ==
    /\ pc = "record"
    /\ processed_files' = Put(processed_files, file_path,
                              FileInfo(file_path, patch_file, patch_tool, clock))
    /\ \E how \in SaveOutcomes :
           /\ data_file' = save_processed_files(data_file, processed_files', how)
           /\ IF how = "ok"
              THEN /\ pc' = "loop"
                   /\ outcome' = [path |-> file_path, how |-> "recorded"]
                   /\ ClearLocals
                   /\ UNCHANGED faults
              ELSE /\ faults < MaxFaults
                   /\ faults' = faults + 1
                   /\ pc' = "except"
                   /\ UNCHANGED <<locals, outcome>>
    /\ before' = Put(before, file_path, pre.content)
    /\ UNCHANGED <<runs, clock, env, patch_tool, fsys, queue, attempted, startup,
                   left>>

\* A handler that forgets the temporary output.
ExceptCalledProcessError_KeepsTemp ==
    /\ pc = "except_cpe"
    /\ pc' = "loop"
    /\ outcome' = [path |-> file_path, how |-> "transform_failed"]
    /\ ClearLocals
    /\ UNCHANGED <<runs, clock, env, data_file, processed_files, patch_tool, fsys,
                   queue, attempted, startup, before, left, faults>>

(* Lines 237-241: except subprocess.CalledProcessError. *)

ExceptCalledProcessError ==
    /\ pc = "except_cpe"
    /\ temp' = Remove(temp, file_path)
    /\ pc' = "loop"
    /\ outcome' = [path |-> file_path, how |-> "transform_failed"]
    /\ ClearLocals
    /\ UNCHANGED <<runs, clock, env, data_file, processed_files, patch_tool, files,
                   patches, queue, attempted, startup, before, left, faults>>

\* A handler that removes the patch but forgets the temporary output.
ExceptException_KeepsTemp ==
    /\ pc = "except"
    /\ IF ~patch_file.bound
       THEN /\ pc' = "crashed"
            /\ outcome' = [path |-> file_path, how |-> "raised"]
            /\ UNCHANGED patches
       ELSE /\ pc' = "loop"
            /\ outcome' = [path |-> file_path,
                           how |-> IF patch_file = None
                                   THEN "patch_failed"
                                   ELSE "failed_after_patch"]
            /\ patches' = IF patch_file = None
                          THEN patches
                          ELSE Remove(patches, patch_file.key)
    /\ ClearLocals
    /\ UNCHANGED <<runs, clock, env, data_file, processed_files, patch_tool, files,
                   temp, queue, attempted, startup, before, left, faults>>

(* Lines 242-248: except Exception.  Reading patch_file before line 214 has *)
(* bound it raises UnboundLocalError, which leaves process_file and run().  *)

ExceptException ==
    /\ pc = "except"
    /\ temp' = Remove(temp, file_path)
    /\ IF ~patch_file.bound
       THEN /\ pc' = "crashed"
            /\ outcome' = [path |-> file_path, how |-> "raised"]
            /\ UNCHANGED patches
       ELSE /\ pc' = "loop"
            /\ outcome' = [path |-> file_path,
                           how |-> IF patch_file = None
                                   THEN "patch_failed"
                                   ELSE "failed_after_patch"]
            /\ patches' = IF patch_file = None
                          THEN patches
                          ELSE Remove(patches, patch_file.key)
    /\ ClearLocals
    /\ UNCHANGED <<runs, clock, env, data_file, processed_files, patch_tool, files,
                   queue, attempted, startup, before, left, faults>>

(* The operator interrupts the program (SIGINT) while process_file is at    *)
(* work.  KeyboardInterrupt is not an Exception: neither handler of lines   *)
(* 237-248 nor those of generate_patch catch it, run() and main() have no   *)
(* handler, and the process ends where it stands: the file system stays as *)
(* it is, the iterator of run() and the locals of process_file end with    *)
(* the process (file_path is kept, to name the file that was in flight).   *)

InFlight ==
    {"popen", "stream", "wait", "patch", "unlink", "rename", "attrs", "record",
     "except_cpe", "except"}

KeyboardInterrupt ==
    /\ pc \in InFlight
    /\ pc' = "interrupted"
    /\ queue' = <<>>
    /\ original_stat' = NoStat
    /\ patch_file' = Unbound
    /\ child' = NoChild
    /\ overdue' = FALSE
    /\ pre' = NoFile
    /\ UNCHANGED <<runs, clock, env, data_file, processed_files, patch_tool, fsys,
                   file_path, attempted, startup, hist, faults>>

(* The operator starts the program again on the same directory, with the   *)
(* same arguments and the ledger file as the previous invocation left it.  *)

Restart ==
    /\ pc = "done"
    /\ runs < MaxRuns
    /\ runs' = runs + 1
    /\ pc' = "init"
    /\ processed_files' = EmptyMap
    /\ patch_tool' = "unset"
    /\ queue' = <<>>
    /\ attempted' = {}
    /\ startup' = "none"
    /\ outcome' = NoOutcome
    /\ left' = [files |-> files, patches |-> patches, data_file |-> data_file]
    /\ UNCHANGED <<clock, env, data_file, fsys, locals, before, faults>>

Next ==
    \/ MovieFixerInit
    \/ Run
    \/ RunReturn
    \/ ProcessFile
    \/ Popen
    \/ FfmpegExit
    \/ DeadlinePasses
    \/ StreamOutput
    \/ WaitChild
    \/ GeneratePatch
    \/ UnlinkOriginal
    \/ RenameTemp
    \/ RestoreAttributes
    \/ RecordAndSave
    \/ ExceptCalledProcessError
    \/ ExceptException
    \/ KeyboardInterrupt
    \/ Restart

Spec == Init /\ [][Next]_vars

----------------------------------------------------------------------------
(* Properties.                                                             *)

\* A step with which a process_file call that reached the ffmpeg launch
\* ends: by returning to the loop of run(), or by an exception leaving it.
Returns == pc \notin {"loop", "constructed"} /\ pc' \in {"loop", "crashed"}

\* After the step: the file at file_path is what it was when the call began,
\* its temporary output is gone and the ledger has no entry for it, neither
\* in memory nor in the ledger file.
LeftUntouched ==
    /\ file_path \in DOMAIN files'
    /\ files'[file_path] = pre
    /\ file_path \notin DOMAIN temp'
    /\ file_path \notin DOMAIN processed_files'
    /\ file_path \notin DOMAIN data_file'.map

\* C1: when the ffmpeg child of a file exited with a nonzero code, then at
\* the return of process_file the original has the content and attributes
\* it had before the call, no '.patched' output exists and no ledger entry
\* for the path exists in memory or on disk.
C1_TransformFailureIsNoOp ==
    [][(Returns /\ child.state = "exited" /\ child.rc # 0) => LeftUntouched]_vars

\* C1 witness: a call has ended after a nonzero exit whose child had left a
\* partial output behind, and the output is gone.
C1_Witness ==
    /\ outcome = [path |-> "a.mp4", how |-> "transform_failed"]
    /\ pc = "loop"
    /\ faults = 1
    /\ "a.mp4" \notin DOMAIN temp
    /\ files["a.mp4"] = InitialFiles["a.mp4"]

\* C2: when the transform succeeded (exit code 0) and generate_patch returned
\* no patch path, then at the return of process_file the original is as it
\* was before the call, the temporary transformed file is removed and no
\* ledger entry exists for the path.
C2_PatchFailureIsNoOp ==
    [][(Returns /\ child.state = "exited" /\ child.rc = 0 /\ patch_file = None)
          => LeftUntouched]_vars

\* C2 witness: a call has ended after a failed patch generation.
C2_Witness ==
    /\ outcome = [path |-> "a.mp4", how |-> "patch_failed"]
    /\ pc = "loop"
    /\ "a.mp4" \notin DOMAIN temp
    /\ files["a.mp4"] = InitialFiles["a.mp4"]
    /\ "a.mp4" \notin DOMAIN processed_files

\* C3: no failure of a stage of one file leaves process_file: the run never
\* ends by an exception, and when run() has ended every candidate of the
\* listing has been handed to process_file.
C3_FailuresStayInsideProcessFile ==
    /\ pc # "crashed"
    /\ pc = "done" => queue = <<>>

\* C4: for a file that ends recorded, applying the patch of its ledger entry
\* with the recorded tool to the content now at the file's path alone gives
\* back the content the file had before processing.
C4_PatchReversesRecordedFile ==
    [][(pc = "record" /\ pc' = "loop")
          => ReverseApply(patch_tool, patches'[patch_file.key].data,
                          files'[file_path].content) = Ok(pre.content)]_vars

\* The movie files a run started on `l` would process were the ledger empty.
Eligible(l) ==
    {p \in Range(Listing) \cap DOMAIN l.files :
        /\ Lower(Suffix(p)) \in movie_extensions
        /\ target_gid = <<>> \/ l.files[p].gid = target_gid[1]}

\* The rerun has changed nothing: files, temporary outputs, patches and the
\* ledger file are as the previous run left them and ffmpeg was not started.
NothingChanged ==
    /\ files = left.files
    /\ temp = EmptyMap
    /\ patches = left.patches
    /\ data_file = left.data_file
    /\ attempted = {}

\* C5 as stated: a second run over the same directory, started from the
\* ledger file the first run left, changes nothing.
C5_SecondRunChangesNothing == runs >= 2 => NothingChanged

\* C5 as amended: a second run changes nothing when the ledger file the first
\* run left has an entry for every movie file the run is eligible to process.
C5_RerunSkipsRecordedFiles ==
    (runs >= 2 /\ Eligible(left) \subseteq DOMAIN load_processed_files(left.data_file).map)
        => NothingChanged

\* C5 witness: the second run has ended and skipped a file the first recorded.
C5_Witness ==
    /\ runs = 2
    /\ pc = "done"
    /\ dir_exists
    /\ Eligible(left) = {"a.mp4", "sub/b.MKV"}
    /\ Eligible(left) \subseteq DOMAIN processed_files
    /\ outcome.how = "already_processed"

\* C6: for a file that ends recorded, the owner, the group and the mode of
\* the file at the original path are the owner, the group and the read/write
\* bits of the mode the original had before the transform.
C6_AttributesPreserved ==
    [][(pc = "record" /\ pc' = "loop")
          => /\ files'[file_path].uid = pre.uid
             /\ files'[file_path].gid = pre.gid
             /\ files'[file_path].mode = pre.mode \cap RW_BITS]_vars

\* C6 witness: a.mp4 is recorded; it has its owner and group back, not those
\* of the ffmpeg output, and has lost its execute bit.
C6_Witness ==
    /\ outcome = [path |-> "a.mp4", how |-> "recorded"]
    /\ files["a.mp4"].uid = 1000
    /\ files["a.mp4"].gid = 20
    /\ files["a.mp4"].mode = {"S_IRUSR", "S_IWUSR", "S_IRGRP"}
    /\ files["a.mp4"].content # InitialFiles["a.mp4"].content

\* C7: a process_file call whose child was still running 300 seconds after
\* its launch ends with the child killed and the file handled as a failed
\* transformation.
C7_OverdueChildIsKilled ==
    [][(Returns /\ overdue) => (child.state = "killed" /\ LeftUntouched)]_vars

\* The ledger entry of a path: the one in memory, else the one on disk.
Entry(p) ==
    IF p \in DOMAIN processed_files THEN processed_files[p] ELSE data_file.map[p]

\* C8: between process_file calls, for every key of the ledger (in memory or
\* in the ledger file) the file exists, the patch file the entry names exists
\* and it takes the file's content back to the content before the transform.
C8_LedgerEntriesAreReversible ==
    pc \in {"loop", "done"} =>
        \A p \in DOMAIN processed_files \cup DOMAIN data_file.map :
            /\ p \in DOMAIN files
            /\ Entry(p).patch_file \in DOMAIN patches
            /\ ReverseApply(Entry(p).patch_tool, patches[Entry(p).patch_file].data,
                            files[p].content) = Ok(before[p])

\* C9: loading the ledger never ends the program: the constructor fails only
\* for want of a patch tool, and a missing or corrupted ledger file gives an
\* empty mapping.
C9_LedgerLoadNeverFatal ==
    /\ pc = "fatal" => startup = "NoPatchTool"
    /\ (startup = "ok" /\ left.data_file.kind # "valid" /\ pc = "constructed")
           => processed_files = EmptyMap

\* The first available tool in the order bsdiff, xdelta3, diff.
Preferred(avail) ==
    IF "bsdiff" \in avail THEN "bsdiff"
    ELSE IF "xdelta3" \in avail THEN "xdelta3"
    ELSE IF "diff" \in avail THEN "diff"
    ELSE "none"

\* The patch formats a tool's run can leave at the patch path.
Formats(tool) ==
    CASE tool = "bsdiff" -> {"bsdiff"}
      [] tool = "xdelta3" -> {"vcdiff"}
      [] OTHER -> {"diff", "partial"}

\* C10: the constructor selects the first available of bsdiff, xdelta3, diff
\* and fails when none is available; the selected tool is the one that
\* generates every patch of the run and the one every ledger entry records.
C10_ToolPriority ==
    /\ startup = "ok" => patch_tool = Preferred(which)
    /\ startup = "NoPatchTool" => which = {} /\ pc = "fatal"
    /\ (startup \in {"ok", "NoPatchTool"} /\ which = {}) => startup = "NoPatchTool"
    /\ pc \in {"unlink", "rename", "attrs", "record"} =>
           patches[patch_file.key].data.fmt \in Formats(Preferred(which))
    /\ \A p \in DOMAIN processed_files :
           processed_files[p].patch_tool = Preferred(which)

\* C10 witness: with xdelta3 and diff available and no bsdiff, a file was
\* recorded with an xdelta3 patch.
C10_Witness ==
    /\ which = {"xdelta3", "diff"}
    /\ "a.mp4" \in DOMAIN processed_files
    /\ processed_files["a.mp4"].patch_tool = "xdelta3"
    /\ patches[processed_files["a.mp4"].patch_file].data.fmt = "vcdiff"

\* C11: with a group-id filter set, process_file on a file of another group
\* returns to the loop with files, temporary outputs, patches, both ledgers
\* and the set of ffmpeg launches unchanged, and a file that goes on to the
\* ffmpeg launch has the filter's group id.
C11_GidFilter ==
    [][(pc = "loop" /\ queue # <<>> /\ target_gid # <<>>
           /\ Head(queue) \in DOMAIN files)
          => IF files[Head(queue)].gid # target_gid[1]
             THEN /\ pc' = "loop"
                  /\ UNCHANGED <<files, temp, patches, processed_files,
                                 data_file, attempted>>
             ELSE pc' = "popen" => files[file_path'].gid = target_gid[1]]_vars

\* C11 witness: with the filter 20, sub/b.MKV (group 10) was skipped for its
\* group and is as it was, while a.mp4 (group 20) reached the ffmpeg launch.
C11_Witness ==
    /\ target_gid = <<20>>
    /\ outcome = [path |-> "sub/b.MKV", how |-> "gid_mismatch"]
    /\ attempted = {"a.mp4"}
    /\ files["sub/b.MKV"] = InitialFiles["sub/b.MKV"]

\* The files of the tree with a supported extension that run() lists.
ExpectedAttempts == IF recursive THEN {"a.mp4", "sub/b.MKV"} ELSE {"a.mp4"}

\* C12: in a first run without a filter (recursive or not) only listed files
\* with a supported extension reach the ffmpeg launch, all of them have when
\* run() returns, and c.txt is never changed, never gets a temporary output
\* or a patch and never gets a ledger entry.
C12_ExtensionFilter ==
    (runs = 1 /\ target_gid = <<>>) =>
        /\ attempted \subseteq ExpectedAttempts
        /\ (pc = "done" /\ dir_exists) => attempted = ExpectedAttempts
        /\ "c.txt" \in DOMAIN files /\ files["c.txt"] = InitialFiles["c.txt"]
        /\ "c.txt" \notin DOMAIN temp
        /\ \A k \in DOMAIN patches : k[1] # "c.txt"
        /\ "c.txt" \notin DOMAIN processed_files \cup DOMAIN data_file.map

\* C12 witness: a first run without filter and without recursion has ended;
\* a.mp4 was recorded, c.txt was ignored.
C12_Witness ==
    /\ runs = 1
    /\ pc = "done"
    /\ ~recursive
    /\ target_gid = <<>>
    /\ attempted = {"a.mp4"}
    /\ "a.mp4" \in DOMAIN data_file.map
    /\ files["c.txt"] = InitialFiles["c.txt"]

\* C13: when no patch tool is available or the directory does not exist,
\* process_file is never called: the program is in the constructor, between
\* constructor and run(), or has ended, and files, temporary outputs, patches
\* and the ledger file are as they were when the program was started.
C13_StartupFailuresTouchNothing ==
    (which = {} \/ ~dir_exists) =>
        /\ NothingChanged
        /\ outcome = NoOutcome
        /\ queue = <<>>
        /\ pc \in {"init", "constructed", "fatal", "done"}

\* C13 witness: run() has returned at once for a missing directory.
C13_Witness ==
    /\ pc = "done"
    /\ ~dir_exists
    /\ startup = "ok"
    /\ files = InitialFiles

\* C14: when process_file returns after generate_patch has failed (returned
\* None), the original is as it was and no patch file that this run created
\* for it, partial, empty or complete, is left.
C14_PatchFailureLeavesNoArtifact ==
    [][(Returns /\ patch_file = None)
          => /\ file_path \in DOMAIN files'
             /\ files'[file_path] = pre
             /\ \A k \in DOMAIN patches' \ DOMAIN left.patches :
                    k[1] # file_path]_vars

\* C15: when process_file returns after a failure of the unlink, the rename
\* or the attribute copy (a patch was generated, no ledger entry was made),
\* the original path exists and holds the content it had before the call.
C15_SwapFailureRestoresOriginal ==
    [][(Returns /\ pc = "except" /\ patch_file.bound /\ patch_file # None
           /\ file_path \notin DOMAIN processed_files)
          => /\ file_path \in DOMAIN files'
             /\ files'[file_path].content = pre.content]_vars

\* C16: a step that removes a file is the unlink of process_file's own file,
\* taken after the child exited with code 0 and generate_patch returned the
\* name of an existing patch file of nonzero size, with the file still as it
\* was when the call began; a step that changes an existing file is the
\* attribute copy that follows the swap.
C16_UnlinkOnlyAfterVerifiedPatch ==
    [][\A p \in DOMAIN files :
          /\ p \notin DOMAIN files' =>
                /\ pc = "unlink"
                /\ p = file_path
                /\ child = [state |-> "exited", rc |-> 0]
                /\ patch_file.bound
                /\ patch_file # None
                /\ patch_file.key \in DOMAIN patches
                /\ patches[patch_file.key].data \notin {Empty, NoWrite}
                /\ files[p] = pre
          /\ (p \in DOMAIN files' /\ files'[p] # files[p]) =>
                pc = "attrs" /\ p = file_path]_vars

\* C16 witness: a.mp4 has been unlinked, its patch exists and its temporary
\* output waits to be renamed.
C16_Witness ==
    /\ pc = "rename"
    /\ file_path = "a.mp4"
    /\ "a.mp4" \notin DOMAIN files
    /\ "a.mp4" \in DOMAIN temp
    /\ patch_file.key \in DOMAIN patches

\* C17: with diff, a generate_patch call that returns a patch path ran a diff
\* that ended with code 0 or 1 and non-empty output, and the patch file holds
\* that output: the complete diff of the original and the transformed file.
C17_DiffExitCodes ==
    [][(pc = "patch" /\ pc' = "unlink" /\ patch_tool = "diff")
          => /\ DiffOutput(files[file_path].content, temp[file_path].content) # Empty
             /\ patches'[patch_file'.key].data =
                   DiffOutput(files[file_path].content, temp[file_path].content)]_vars

\* C18: between process_file calls, every key of the in-memory ledger is in
\* the ledger file with the same record.
C18_MemoryLedgerIsPersisted ==
    pc \in {"loop", "done"} =>
        \A p \in DOMAIN processed_files :
            /\ data_file.kind = "valid"
            /\ p \in DOMAIN data_file.map
            /\ data_file.map[p] = processed_files[p]

\* C19: no step removes or changes an entry of the ledger file, and no step
\* of a run removes or changes an entry of the in-memory ledger.
C19_LedgerEntriesAreStable ==
    [][/\ \A p \in DOMAIN data_file.map :
             /\ p \in DOMAIN data_file'.map
             /\ data_file'.map[p] = data_file.map[p]
       /\ runs' = runs =>
             \A p \in DOMAIN processed_files :
                 /\ p \in DOMAIN processed_files'
                 /\ processed_files'[p] = processed_files[p]]_vars

\* C20: when the process has ended by an interrupt, the file it was working
\* on exists at its path, no temporary output is left and every patch file
\* of that file is the one its entry in the ledger file names.
C20_InterruptLeavesNoArtifacts ==
    pc = "interrupted" =>
        /\ file_path \in DOMAIN files
        /\ file_path \notin DOMAIN temp
        /\ \A k \in DOMAIN patches :
               k[1] = file_path =>
                   /\ file_path \in DOMAIN data_file.map
                   /\ data_file.map[file_path].patch_file = k

=============================================================================
